---------------------------- MODULE Spec2Model ----------------------------
(***************************************************************************)
(* nsjail command-line translator (cmdline.cc): parseArgs, parseRLimit,    *)
(* cmdlineSplitStrByColon and cmdlineUsage as a state machine.             *)
(*                                                                         *)
(* One run of the machine is one call of parseArgs.  The getopt_long loop  *)
(* consumes one directive per step (pc = "getopt"); after the loop the     *)
(* finalization code runs statement by statement (pc = "proc", "root",     *)
(* "idmap", "log", "cmd", "execfd", "policy") until the function returns   *)
(* (pc = "done").  C strings are sequences of one-character strings, the   *)
(* null pointer is NULL.  Collaborators that live in other translation     *)
(* units (mnt::, user::, log::, sandbox::, util::, the host) are modelled  *)
(* by their contract, with a nondeterministic success/failure outcome.     *)
(* Command lines with -C/--config are not covered: the configuration file  *)
(* parser may rewrite any field of the specification.                      *)
(***************************************************************************)
EXTENDS Integers, Sequences, FiniteSets, TLC

VARIABLES
    nsjconf,    \* the struct nsjconf_t under construction
    pc,         \* position inside parseArgs
    result,     \* "pending", "nsjconf", "nullptr", "exit0" (exit(0)), "fatal" (LOG_F abort)
    args,       \* the directives getopt_long has returned so far, in argv order
    out,        \* what has been written to the console/log, in order
    calls,      \* calls made to the collaborators, in order, with their arguments
    host,       \* the host: real uid/gid of the caller and its resource limits
    command     \* the positional command argv[optind..], <<>> when there is none

vars == <<nsjconf, pc, result, args, out, calls, host, command>>

----------------------------------------------------------------------------
(* Bounds of the model *)

\* directives on one command line, specifications with a small alphabet
MaxOpts == 3
\* directives on one command line, specifications whose values range over many tokens
MaxArgOpts == 1
\* directives on one command line, specification of the scalar options
MaxScalarOpts == 2

----------------------------------------------------------------------------
(* C strings *)

NULL == <<"NULL">>

EmptyStr == <<>>

strlen(s) == Len(s)

RECURSIVE Join(_)
\* the fields of a token written with ':' between them
Join(fields) ==
    IF Len(fields) = 0 THEN <<>>
    ELSE IF Len(fields) = 1 THEN fields[1]
    ELSE fields[1] \o <<":">> \o Join(Tail(fields))

LowerOf ==
    [c \in {"I", "N", "F", "D", "E", "S", "O", "T", "M", "A", "X", "H", "R"} |->
        CASE c = "I" -> "i" [] c = "N" -> "n" [] c = "F" -> "f" [] c = "D" -> "d"
          [] c = "E" -> "e" [] c = "S" -> "s" [] c = "O" -> "o" [] c = "T" -> "t"
          [] c = "M" -> "m" [] c = "A" -> "a" [] c = "X" -> "x" [] c = "H" -> "h"
          [] c = "R" -> "r"]

tolower(c) == IF c \in DOMAIN LowerOf THEN LowerOf[c] ELSE c

\* strcasecmp(a, b) == 0
strcasecmpEq(a, b) ==
    /\ Len(a) = Len(b)
    /\ \A i \in 1..Len(a) : tolower(a[i]) = tolower(b[i])

DigitVal ==
    [c \in {"0", "1", "2", "3", "4", "5", "6", "7", "8", "9"} |->
        CASE c = "0" -> 0 [] c = "1" -> 1 [] c = "2" -> 2 [] c = "3" -> 3
          [] c = "4" -> 4 [] c = "5" -> 5 [] c = "6" -> 6 [] c = "7" -> 7
          [] c = "8" -> 8 [] c = "9" -> 9]

isdigit(c) == c \in DOMAIN DigitVal

IsDigitOfBase(c, base) == isdigit(c) /\ DigitVal[c] < base

RECURSIVE AccumulateDigits(_, _, _)
\* the digits of s read in the given base until the first character that is
\* not a digit of that base
AccumulateDigits(s, base, acc) ==
    IF Len(s) = 0 \/ ~IsDigitOfBase(s[1], base) THEN acc
    ELSE AccumulateDigits(Tail(s), base, acc * base + DigitVal[s[1]])

\* strtoull(s, NULL, 0): base 16 after "0x", base 8 after "0", base 10
\* otherwise; 0 when no digit can be read.  The hexadecimal letters a-f are
\* not in the model's alphabet.
strtoull(s) ==
    IF Len(s) >= 3 /\ s[1] = "0" /\ s[2] \in {"x", "X"} /\ isdigit(s[3])
    THEN AccumulateDigits(SubSeq(s, 3, Len(s)), 16, 0)
    ELSE IF Len(s) >= 1 /\ s[1] = "0"
    THEN AccumulateDigits(s, 8, 0)
    ELSE AccumulateDigits(s, 10, 0)

\* util::isANumber: a non-empty run of decimal digits
isANumber(s) == Len(s) > 0 /\ \A i \in 1..Len(s) : isdigit(s[i])

----------------------------------------------------------------------------
(* cmdlineSplitStrByColon *)

\* index of the first ':' of spec, or Len(spec) + 1 (the terminator)
RECURSIVE ScanToColon(_, _)
ScanToColon(spec, i) ==
    IF i > Len(spec) \/ spec[i] = ":" THEN i ELSE ScanToColon(spec, i + 1)

\* The string spec points to after the call: cut at the first ':'.
SplitLeft(spec) ==
    IF spec = NULL THEN NULL
    ELSE SubSeq(spec, 1, ScanToColon(spec, 1) - 1)

\* The returned pointer: the text after the first ':', NULL when spec is NULL
\* or holds no ':'.
\* Variant: a splitter that never finds a right-hand part.
SplitNothing(spec) == NULL

\* The string after the first ':' of spec, NULL when there is none.
cmdlineSplitStrByColon(spec) ==
    IF spec = NULL THEN NULL
    ELSE LET dest == ScanToColon(spec, 1)
         IN  IF dest <= Len(spec)
             THEN SubSeq(spec, dest + 1, Len(spec))
             ELSE NULL

----------------------------------------------------------------------------
(* The option tables.  val is the option's code: the letter for codes below
   0x80, the number in four hexadecimal digits otherwise (the switch labels
   0x601 and 0x0601 are the same code). *)

custom_opts ==
    <<
        [name |-> "help", has_arg |-> FALSE, val |-> "h"],
        [name |-> "mode", has_arg |-> TRUE, val |-> "M"],
        [name |-> "config", has_arg |-> TRUE, val |-> "C"],
        [name |-> "exec_file", has_arg |-> TRUE, val |-> "x"],
        [name |-> "execute_fd", has_arg |-> FALSE, val |-> "0x0607"],
        [name |-> "chroot", has_arg |-> TRUE, val |-> "c"],
        [name |-> "rw", has_arg |-> FALSE, val |-> "0x0601"],
        [name |-> "user", has_arg |-> TRUE, val |-> "u"],
        [name |-> "group", has_arg |-> TRUE, val |-> "g"],
        [name |-> "hostname", has_arg |-> TRUE, val |-> "H"],
        [name |-> "cwd", has_arg |-> TRUE, val |-> "D"],
        [name |-> "port", has_arg |-> TRUE, val |-> "p"],
        [name |-> "bindhost", has_arg |-> TRUE, val |-> "0x0604"],
        [name |-> "max_conns_per_ip", has_arg |-> TRUE, val |-> "i"],
        [name |-> "log", has_arg |-> TRUE, val |-> "l"],
        [name |-> "log_fd", has_arg |-> TRUE, val |-> "L"],
        [name |-> "time_limit", has_arg |-> TRUE, val |-> "t"],
        [name |-> "max_cpus", has_arg |-> TRUE, val |-> "0x0508"],
        [name |-> "daemon", has_arg |-> FALSE, val |-> "d"],
        [name |-> "verbose", has_arg |-> FALSE, val |-> "v"],
        [name |-> "quiet", has_arg |-> FALSE, val |-> "q"],
        [name |-> "really_quiet", has_arg |-> FALSE, val |-> "Q"],
        [name |-> "keep_env", has_arg |-> FALSE, val |-> "e"],
        [name |-> "env", has_arg |-> TRUE, val |-> "E"],
        [name |-> "keep_caps", has_arg |-> FALSE, val |-> "0x0501"],
        [name |-> "cap", has_arg |-> TRUE, val |-> "0x0509"],
        [name |-> "silent", has_arg |-> FALSE, val |-> "0x0502"],
        [name |-> "skip_setsid", has_arg |-> FALSE, val |-> "0x0504"],
        [name |-> "pass_fd", has_arg |-> TRUE, val |-> "0x0505"],
        [name |-> "disable_no_new_privs", has_arg |-> FALSE, val |-> "0x0507"],
        [name |-> "rlimit_as", has_arg |-> TRUE, val |-> "0x0201"],
        [name |-> "rlimit_core", has_arg |-> TRUE, val |-> "0x0202"],
        [name |-> "rlimit_cpu", has_arg |-> TRUE, val |-> "0x0203"],
        [name |-> "rlimit_fsize", has_arg |-> TRUE, val |-> "0x0204"],
        [name |-> "rlimit_nofile", has_arg |-> TRUE, val |-> "0x0205"],
        [name |-> "rlimit_nproc", has_arg |-> TRUE, val |-> "0x0206"],
        [name |-> "rlimit_stack", has_arg |-> TRUE, val |-> "0x0207"],
        [name |-> "persona_addr_compat_layout", has_arg |-> FALSE, val |-> "0x0301"],
        [name |-> "persona_mmap_page_zero", has_arg |-> FALSE, val |-> "0x0302"],
        [name |-> "persona_read_implies_exec", has_arg |-> FALSE, val |-> "0x0303"],
        [name |-> "persona_addr_limit_3gb", has_arg |-> FALSE, val |-> "0x0304"],
        [name |-> "persona_addr_no_randomize", has_arg |-> FALSE, val |-> "0x0305"],
        [name |-> "disable_clone_newnet", has_arg |-> FALSE, val |-> "N"],
        [name |-> "disable_clone_newuser", has_arg |-> FALSE, val |-> "0x0402"],
        [name |-> "disable_clone_newns", has_arg |-> FALSE, val |-> "0x0403"],
        [name |-> "disable_clone_newpid", has_arg |-> FALSE, val |-> "0x0404"],
        [name |-> "disable_clone_newipc", has_arg |-> FALSE, val |-> "0x0405"],
        [name |-> "disable_clone_newuts", has_arg |-> FALSE, val |-> "0x0406"],
        [name |-> "disable_clone_newcgroup", has_arg |-> FALSE, val |-> "0x0407"],
        [name |-> "uid_mapping", has_arg |-> TRUE, val |-> "U"],
        [name |-> "gid_mapping", has_arg |-> TRUE, val |-> "G"],
        [name |-> "bindmount_ro", has_arg |-> TRUE, val |-> "R"],
        [name |-> "bindmount", has_arg |-> TRUE, val |-> "B"],
        [name |-> "tmpfsmount", has_arg |-> TRUE, val |-> "T"],
        [name |-> "tmpfs_size", has_arg |-> TRUE, val |-> "0x0602"],
        [name |-> "disable_proc", has_arg |-> FALSE, val |-> "0x0603"],
        [name |-> "proc_path", has_arg |-> TRUE, val |-> "0x0605"],
        [name |-> "proc_rw", has_arg |-> FALSE, val |-> "0x0606"],
        [name |-> "seccomp_policy", has_arg |-> TRUE, val |-> "P"],
        [name |-> "seccomp_string", has_arg |-> TRUE, val |-> "0x0901"],
        [name |-> "cgroup_mem_max", has_arg |-> TRUE, val |-> "0x0801"],
        [name |-> "cgroup_mem_mount", has_arg |-> TRUE, val |-> "0x0802"],
        [name |-> "cgroup_mem_parent", has_arg |-> TRUE, val |-> "0x0803"],
        [name |-> "cgroup_pids_max", has_arg |-> TRUE, val |-> "0x0811"],
        [name |-> "cgroup_pids_mount", has_arg |-> TRUE, val |-> "0x0812"],
        [name |-> "cgroup_pids_parent", has_arg |-> TRUE, val |-> "0x0813"],
        [name |-> "cgroup_net_cls_classid", has_arg |-> TRUE, val |-> "0x0821"],
        [name |-> "cgroup_net_cls_mount", has_arg |-> TRUE, val |-> "0x0822"],
        [name |-> "cgroup_net_cls_parent", has_arg |-> TRUE, val |-> "0x0823"],
        [name |-> "cgroup_cpu_ms_per_sec", has_arg |-> TRUE, val |-> "0x0831"],
        [name |-> "cgroup_cpu_mount", has_arg |-> TRUE, val |-> "0x0822"],
        [name |-> "cgroup_cpu_parent", has_arg |-> TRUE, val |-> "0x0833"],
        [name |-> "iface_no_lo", has_arg |-> FALSE, val |-> "0x0700"],
        [name |-> "macvlan_iface", has_arg |-> TRUE, val |-> "I"],
        [name |-> "macvlan_vs_ip", has_arg |-> TRUE, val |-> "0x0701"],
        [name |-> "macvlan_vs_nm", has_arg |-> TRUE, val |-> "0x0702"],
        [name |-> "macvlan_vs_gw", has_arg |-> TRUE, val |-> "0x0703"]
    >>

deprecated_opts ==
    <<
        [name |-> "iface", has_arg |-> TRUE, val |-> "I"],
        [name |-> "iface_vs_ip", has_arg |-> TRUE, val |-> "0x0701"],
        [name |-> "iface_vs_nm", has_arg |-> TRUE, val |-> "0x0702"],
        [name |-> "iface_vs_gw", has_arg |-> TRUE, val |-> "0x0703"],
        [name |-> "enable_clone_newcgroup", has_arg |-> FALSE, val |-> "0x0408"]
    >>

\* the array handed to getopt_long: custom_opts followed by deprecated_opts
opts == custom_opts \o deprecated_opts

\* the short-option string of getopt_long; a letter followed by ':' takes a value
optstring ==
    << "x", ":", "H", ":", "D", ":", "C", ":", "c", ":", "p", ":", "i", ":",
       "u", ":", "g", ":", "l", ":", "L", ":", "t", ":", "M", ":", "N", "d",
       "v", "q", "Q", "e", "h", "?", "E", ":", "R", ":", "B", ":", "T", ":",
       "P", ":", "I", ":", "U", ":", "G", ":" >>

\* A directive of the command line: a long option (--name[=optarg]) or a short
\* one (-name [optarg]); optarg = NULL when no value is supplied.
IsShort(d) == ~d.long

ShortTakesArg(letter) ==
    \E i \in 1..(Len(optstring) - 1) : optstring[i] = letter /\ optstring[i + 1] = ":"

\* The code getopt_long returns for directive d: the val of the first table
\* entry of that name, the letter of a short option, "?" for an unknown option,
\* a required value that is missing or a value given to an option taking none.
getopt_long(d) ==
    IF IsShort(d)
    THEN IF d.name = ":" \/ ~\E i \in 1..Len(optstring) : optstring[i] = d.name
         THEN "?"
         ELSE IF ShortTakesArg(d.name) /\ d.optarg = NULL THEN "?"
         ELSE d.name
    ELSE IF ~\E i \in 1..Len(opts) : opts[i].name = d.name
         THEN "?"
         ELSE LET i == CHOOSE k \in 1..Len(opts) :
                          /\ opts[k].name = d.name
                          /\ \A j \in 1..(k - 1) : opts[j].name # d.name
              IN  IF opts[i].has_arg = (d.optarg = NULL) THEN "?"
                  ELSE opts[i].val

Long(name, optarg) == [long |-> TRUE, name |-> name, optarg |-> optarg]

Short(letter, optarg) == [long |-> FALSE, name |-> letter, optarg |-> optarg]

----------------------------------------------------------------------------
(* cmdlineUsage *)

Line(kind, text) == [kind |-> kind, text |-> text]

cmdlineOptUsage(option) == <<Line("OPT", option.name)>>

\* Variant: a usage display without deprecation notices.
NoDeprecationNotice(dep) == <<>>

\* the "DEPRECATED: Use %s instead." line of a deprecated option: the name of
\* the first custom_opts entry with the same val, nothing when there is none
DeprecationNotice(dep) ==
    IF \E j \in 1..Len(custom_opts) : custom_opts[j].val = dep.val
    THEN LET j == CHOOSE k \in 1..Len(custom_opts) :
                      /\ custom_opts[k].val = dep.val
                      /\ \A m \in 1..(k - 1) : custom_opts[m].val # dep.val
         IN  <<Line("DEPRECATED", custom_opts[j].name)>>
    ELSE <<>>

RECURSIVE UsageOfOptions(_, _)
UsageOfOptions(table, i) ==
    IF i > Len(table) THEN <<>>
    ELSE cmdlineOptUsage(table[i]) \o UsageOfOptions(table, i + 1)

RECURSIVE UsageOfDeprecated(_)
UsageOfDeprecated(i) ==
    IF i > Len(deprecated_opts) THEN <<>>
    ELSE cmdlineOptUsage(deprecated_opts[i])
            \o DeprecationNotice(deprecated_opts[i])
            \o UsageOfDeprecated(i + 1)

cmdlineUsage ==
    <<Line("HELP", "Usage"), Line("HELP", "Options:")>>
        \o UsageOfOptions(custom_opts, 1)
        \o <<Line("HELP", "Deprecated options:")>>
        \o UsageOfDeprecated(1)
        \o <<Line("HELP", "Examples")>>

----------------------------------------------------------------------------
(* The host *)

RLIM64_INFINITY == -1

RLimitKinds ==
    {"RLIMIT_AS", "RLIMIT_CORE", "RLIMIT_CPU", "RLIMIT_FSIZE", "RLIMIT_NOFILE",
     "RLIMIT_NPROC", "RLIMIT_STACK"}

KindIndex ==
    [k \in RLimitKinds |->
        CASE k = "RLIMIT_AS" -> 1 [] k = "RLIMIT_CORE" -> 2 [] k = "RLIMIT_CPU" -> 3
          [] k = "RLIMIT_FSIZE" -> 4 [] k = "RLIMIT_NOFILE" -> 5
          [] k = "RLIMIT_NPROC" -> 6 [] k = "RLIMIT_STACK" -> 7]

\* Hosts the translator may run on: the caller's real ids and, per limit kind,
\* the current soft and hard limit (an unlimited hard limit on the second host).
Hosts ==
    { [uid |-> 1000, gid |-> 100,
       rlimit |-> [k \in RLimitKinds |->
                     [rlim_cur |-> 20 + KindIndex[k], rlim_max |-> 40 + KindIndex[k]]]],
      [uid |-> 0, gid |-> 5,
       rlimit |-> [k \in RLimitKinds |->
                     [rlim_cur |-> 60 + KindIndex[k], rlim_max |-> RLIM64_INFINITY]]] }

\* getrlimit64(res, &cur): the limits of the host, or failure (-1)
getrlimit64(h, res, ok) ==
    [ok |-> ok, rlim_cur |-> h.rlimit[res].rlim_cur, rlim_max |-> h.rlimit[res].rlim_max]

----------------------------------------------------------------------------
(* parseRLimit *)

Returned(v) == [fatal |-> FALSE, val |-> v, log |-> <<>>]

\* LOG_F and PLOG_F write the message and end the process
Fatal(kind, text) == [fatal |-> TRUE, val |-> 0, log |-> <<Line(kind, text)>>]

\* Variant: a resolver that does not apply the unit to a numeric token.
parseRLimitUnscaled(h, res, optarg, mul, ok) ==
    IF strcasecmpEq(optarg, <<"i", "n", "f">>) THEN Returned(RLIM64_INFINITY)
    ELSE LET cur == getrlimit64(h, res, ok)
         IN  IF ~cur.ok THEN Fatal("PLOG_F", "getrlimit")
             ELSE IF strcasecmpEq(optarg, <<"d", "e", "f">>)
                     \/ strcasecmpEq(optarg, <<"s", "o", "f", "t">>)
             THEN Returned(cur.rlim_cur)
             ELSE IF strcasecmpEq(optarg, <<"m", "a", "x">>)
                     \/ strcasecmpEq(optarg, <<"h", "a", "r", "d">>)
             THEN Returned(cur.rlim_max)
             ELSE IF ~isANumber(optarg) THEN Fatal("LOG_F", "RLIMIT needs a numeric value")
             ELSE Returned(strtoull(optarg))

\* Variant: a resolver that compares the keywords with regard to case.
parseRLimitCased(h, res, optarg, mul, ok) ==
    IF optarg = <<"i", "n", "f">> THEN Returned(RLIM64_INFINITY)
    ELSE LET cur == getrlimit64(h, res, ok)
         IN  IF ~cur.ok THEN Fatal("PLOG_F", "getrlimit")
             ELSE IF optarg \in {<<"d", "e", "f">>, <<"s", "o", "f", "t">>}
             THEN Returned(cur.rlim_cur)
             ELSE IF optarg \in {<<"m", "a", "x">>, <<"h", "a", "r", "d">>}
             THEN Returned(cur.rlim_max)
             ELSE IF ~isANumber(optarg) THEN Fatal("LOG_F", "RLIMIT needs a numeric value")
             ELSE Returned(strtoull(optarg) * mul)

\* parseRLimit(res, optarg, mul) on host h, where ok tells whether the
\* getrlimit64 call succeeds.  LOG_F/PLOG_F end the process (Fatal).
\* Products are below 2^31 in the model, so the 64-bit wrap of
\* strtoull(optarg) * mul and the ULLONG_MAX test of line 292 are not reached.
parseRLimit(h, res, optarg, mul, ok) ==
    IF strcasecmpEq(optarg, <<"i", "n", "f">>) THEN Returned(RLIM64_INFINITY)
    ELSE LET cur == getrlimit64(h, res, ok)
         IN  IF ~cur.ok THEN Fatal("PLOG_F", "getrlimit")
             ELSE IF strcasecmpEq(optarg, <<"d", "e", "f">>)
                     \/ strcasecmpEq(optarg, <<"s", "o", "f", "t">>)
             THEN Returned(cur.rlim_cur)
             ELSE IF strcasecmpEq(optarg, <<"m", "a", "x">>)
                     \/ strcasecmpEq(optarg, <<"h", "a", "r", "d">>)
             THEN Returned(cur.rlim_max)
             ELSE IF ~isANumber(optarg) THEN Fatal("LOG_F", "RLIMIT needs a numeric value")
             ELSE Returned(strtoull(optarg) * mul)

----------------------------------------------------------------------------
(* Collaborators: the mount plan builder (mnt::) and the identity map
   builder (user::) *)

MountPt(src, dst, fs_type, options, flags, isDir, mandatory, is_symlink) ==
    [src |-> src, dst |-> IF dst = NULL THEN src ELSE dst, fs_type |-> fs_type,
     options |-> options, flags |-> flags, isDir |-> isDir,
     mandatory |-> mandatory, is_symlink |-> is_symlink]

\* mnt::addMountPtTail: the entry goes to the end of the sequence
addMountPtTail(mountpts, entry) == Append(mountpts, entry)

\* mnt::addMountPtHead: the entry goes to the front of the sequence
addMountPtHead(mountpts, entry) == <<entry>> \o mountpts

\* an id token resolved on the host: the caller's own id for an absent or
\* empty token, the number for a numeric one, -1 for anything else
ResolveId(tok, own) ==
    IF tok = NULL \/ strlen(tok) = 0 THEN own
    ELSE IF isANumber(tok) THEN strtoull(tok)
    ELSE -1

IdMap(inside, outside, count, is_newidmap) ==
    [inside_id |-> inside, outside_id |-> outside, count |-> count,
     is_newidmap |-> is_newidmap]

\* user::parseId: appends one mapping to the uid or the gid list, or fails.
\* allowSingle is the builder's policy for a token without an outside id.
parseId(conf, h, i_id, o_id, cnt, is_gid, is_newidmap, allowSingle) ==
    LET own     == IF is_gid THEN h.gid ELSE h.uid
        inside  == ResolveId(i_id, own)
        outside == ResolveId(o_id, own)
        entry   == IdMap(inside, outside, cnt, is_newidmap)
    IN  IF inside = -1 \/ outside = -1 \/ (o_id = NULL /\ ~allowSingle)
        THEN [ok |-> FALSE, conf |-> conf]
        ELSE [ok |-> TRUE,
              conf |-> IF is_gid
                       THEN [conf EXCEPT !.gids = Append(@, entry)]
                       ELSE [conf EXCEPT !.uids = Append(@, entry)]]

----------------------------------------------------------------------------
(* parseArgs: the defaults of lines 324-391 *)

\* nsjconf->argv == NULL: a command vector without words
NoArgv == <<>>

Str_root == <<"/">>

Str_proc == <<"/", "p", "r", "o", "c">>

DefaultConf(h) ==
    [ exec_file |-> NULL,
      use_execveat |-> FALSE,
      exec_fd |-> -1,
      argv |-> NoArgv,
      port |-> 0,
      rl_as |-> 512 * (1024 * 1024),
      rl_core |-> 0,
      rl_cpu |-> 600,
      rl_fsize |-> 1 * (1024 * 1024),
      rl_nofile |-> 32,
      rl_nproc |-> parseRLimit(h, "RLIMIT_NPROC", <<"s", "o", "f", "t">>, 1, TRUE).val,
      rl_stack |-> parseRLimit(h, "RLIMIT_STACK", <<"s", "o", "f", "t">>, 1, TRUE).val,
      clone_newcgroup |-> TRUE,
      mode |-> "MODE_STANDALONE_ONCE",
      chroot |-> EmptyStr,
      is_root_rw |-> FALSE,
      mount_proc |-> TRUE,
      proc_path |-> Str_proc,
      is_proc_rw |-> FALSE,
      cgroup_net_cls_mount |->
          <<"/", "s", "y", "s", "/", "f", "s", "/", "c", "g", "r", "o", "u", "p",
            "/", "n", "e", "t", "_", "c", "l", "s">>,
      cgroup_cpu_mount |->
          <<"/", "s", "y", "s", "/", "f", "s", "/", "c", "g", "r", "o", "u", "p",
            "/", "c", "p", "u">>,
      iface_vs |-> NULL,
      iface_vs_ip |-> <<"0", ".", "0", ".", "0", ".", "0">>,
      iface_vs_nm |-> <<"2", "5", "5", ".", "2", "5", "5", ".", "2", "5", "5", ".", "0">>,
      iface_vs_gw |-> <<"0", ".", "0", ".", "0", ".", "0">>,
      logfile |-> EmptyStr,
      caps |-> <<>>,
      kafel_file_path |-> NULL,
      uids |-> <<>>,
      gids |-> <<>>,
      mountpts |-> <<>> ]

\* the positional commands of the modelled command lines: none, or /bin/sh
Commands == {<<>>, <<<<"/", "b", "i", "n", "/", "s", "h">>>>}

\* The state when the getopt_long loop is entered.  The two getrlimit64 calls
\* of lines 346-347 have succeeded (their failure aborts the process before
\* any directive is read).
Init ==
    /\ host \in Hosts
    /\ command \in Commands
    /\ nsjconf = DefaultConf(host)
    /\ pc = "getopt"
    /\ result = "pending"
    /\ args = <<>>
    /\ out = <<>>
    /\ calls = <<>>

----------------------------------------------------------------------------
(* parseArgs: the getopt_long loop, lines 409-760 *)

\* getopt_long returns code c for directive d
Getopt(d, c) ==
    /\ pc = "getopt"
    /\ getopt_long(d) = c
    /\ args' = Append(args, d)

\* the switch case ends with break: back to getopt_long
Break == UNCHANGED <<pc, result, host, command>>

\* return nullptr
ReturnNull ==
    /\ pc' = "done"
    /\ result' = "nullptr"
    /\ UNCHANGED <<host, command>>

Call(fn, a) == [fn |-> fn, a |-> a]

\* case 'x'
case_x(conf, optarg) == [conf EXCEPT !.exec_file = optarg]

Opt_x(d) ==
    /\ Getopt(d, "x")
    /\ nsjconf' = case_x(nsjconf, d.optarg)
    /\ Break
    /\ UNCHANGED <<out, calls>>

\* case 'c'
case_c(conf, optarg) == [conf EXCEPT !.chroot = optarg]

Opt_c(d) ==
    /\ Getopt(d, "c")
    /\ nsjconf' = case_c(nsjconf, d.optarg)
    /\ Break
    /\ UNCHANGED <<out, calls>>

\* case 0x0601
case_0x0601(conf) == [conf EXCEPT !.is_root_rw = TRUE]

Opt_rw(d) ==
    /\ Getopt(d, "0x0601")
    /\ nsjconf' = case_0x0601(nsjconf)
    /\ Break
    /\ UNCHANGED <<out, calls>>

\* case 0x0603
case_0x0603(conf) == [conf EXCEPT !.mount_proc = FALSE]

Opt_disable_proc(d) ==
    /\ Getopt(d, "0x0603")
    /\ nsjconf' = case_0x0603(nsjconf)
    /\ Break
    /\ UNCHANGED <<out, calls>>

\* case 0x0606
case_0x0606(conf) == [conf EXCEPT !.is_proc_rw = TRUE]

Opt_proc_rw(d) ==
    /\ Getopt(d, "0x0606")
    /\ nsjconf' = case_0x0606(nsjconf)
    /\ Break
    /\ UNCHANGED <<out, calls>>

\* case 0x0607
case_0x0607(conf) == [conf EXCEPT !.use_execveat = TRUE]

Opt_execute_fd(d) ==
    /\ Getopt(d, "0x0607")
    /\ nsjconf' = case_0x0607(nsjconf)
    /\ Break
    /\ UNCHANGED <<out, calls>>

\* A call of mnt::addMountPtTail or mnt::addMountPtHead from parseArgs with
\* the built entry; ok is the builder's verdict.  On failure parseArgs
\* returns nullptr, otherwise control goes to next.
AddMountPt(fn, entry, ok, next) ==
    /\ calls' = Append(calls, Call(fn, entry))
    /\ UNCHANGED <<out, host, command>>
    /\ IF ok
       THEN /\ nsjconf' = [nsjconf EXCEPT !.mountpts =
                              IF fn = "mnt::addMountPtHead"
                              THEN addMountPtHead(@, entry)
                              ELSE addMountPtTail(@, entry)]
            /\ pc' = next
            /\ result' = result
       ELSE /\ nsjconf' = nsjconf
            /\ pc' = "done"
            /\ result' = "nullptr"

\* the entry of case 'R': a read-only recursive private bind mount
Entry_R(optarg) ==
    LET split == cmdlineSplitStrByColon(optarg)
        src   == SplitLeft(optarg)
        dst   == IF split # NULL THEN split ELSE src
    IN  MountPt(src, dst, "", "", {"MS_BIND", "MS_REC", "MS_PRIVATE", "MS_RDONLY"},
                "NS_DIR_MAYBE", TRUE, FALSE)

\* case 'R'
Opt_R(d, ok) ==
    /\ Getopt(d, "R")
    /\ AddMountPt("mnt::addMountPtTail", Entry_R(d.optarg), ok, "getopt")

\* the entry of case 'B': a recursive private bind mount
Entry_B(optarg) ==
    LET split == cmdlineSplitStrByColon(optarg)
        src   == SplitLeft(optarg)
        dst   == IF split # NULL THEN split ELSE src
    IN  MountPt(src, dst, "", "", {"MS_BIND", "MS_REC", "MS_PRIVATE"},
                "NS_DIR_MAYBE", TRUE, FALSE)

\* case 'B'
Opt_B(d, ok) ==
    /\ Getopt(d, "B")
    /\ AddMountPt("mnt::addMountPtTail", Entry_B(d.optarg), ok, "getopt")

\* the entry of case 'T': a tmpfs mount sized by cmdlineTmpfsSz
Entry_T(optarg) ==
    MountPt(NULL, optarg, "tmpfs", "size=4194304", {}, "NS_DIR_YES", TRUE, FALSE)

\* case 'T'
Opt_T(d, ok) ==
    /\ Getopt(d, "T")
    /\ AddMountPt("mnt::addMountPtTail", Entry_T(d.optarg), ok, "getopt")

\* Variant: a count that is 1 whatever the third field holds.
IdCountOne(cnt) == 1

\* the count of lines 598-599: 1 for an absent or empty third field
IdCount(cnt) == IF cnt = NULL \/ strlen(cnt) = 0 THEN 1 ELSE strtoull(cnt)

\* The body shared by the cases 'u', 'g', 'U' and 'G': two splits of optarg,
\* the count, then user::parseId.
IdCase(optarg, is_gid, is_newidmap, allowSingle) ==
    LET i_id  == SplitLeft(optarg)
        o_id0 == cmdlineSplitStrByColon(optarg)
        o_id  == SplitLeft(o_id0)
        cnt   == cmdlineSplitStrByColon(o_id0)
        count == IdCount(cnt)
        r     == parseId(nsjconf, host, i_id, o_id, count, is_gid, is_newidmap,
                         allowSingle)
    IN  /\ calls' = Append(calls,
                       Call("user::parseId",
                            [i_id |-> i_id, o_id |-> o_id, count |-> count,
                             is_gid |-> is_gid, is_newidmap |-> is_newidmap]))
        /\ nsjconf' = r.conf
        /\ UNCHANGED out
        /\ IF r.ok THEN Break ELSE ReturnNull

\* case 'u'
Opt_u(d, allowSingle) ==
    /\ Getopt(d, "u")
    /\ IdCase(d.optarg, FALSE, FALSE, allowSingle)

\* case 'g'
Opt_g(d, allowSingle) ==
    /\ Getopt(d, "g")
    /\ IdCase(d.optarg, TRUE, FALSE, allowSingle)

\* case 'U'
Opt_U(d, allowSingle) ==
    /\ Getopt(d, "U")
    /\ IdCase(d.optarg, FALSE, TRUE, allowSingle)

\* case 'G'
Opt_G(d, allowSingle) ==
    /\ Getopt(d, "G")
    /\ IdCase(d.optarg, TRUE, TRUE, allowSingle)

\* The cases 0x0201-0x0207: the limit kind, the field it is stored in and the
\* unit multiplier handed to parseRLimit.
RLimitCases ==
    { [val |-> "0x0201", res |-> "RLIMIT_AS",     field |-> "rl_as",     mul |-> 1024 * 1024],
      [val |-> "0x0202", res |-> "RLIMIT_CORE",   field |-> "rl_core",   mul |-> 1024 * 1024],
      [val |-> "0x0203", res |-> "RLIMIT_CPU",    field |-> "rl_cpu",    mul |-> 1],
      [val |-> "0x0204", res |-> "RLIMIT_FSIZE",  field |-> "rl_fsize",  mul |-> 1024 * 1024],
      [val |-> "0x0205", res |-> "RLIMIT_NOFILE", field |-> "rl_nofile", mul |-> 1],
      [val |-> "0x0206", res |-> "RLIMIT_NPROC",  field |-> "rl_nproc",  mul |-> 1],
      [val |-> "0x0207", res |-> "RLIMIT_STACK",  field |-> "rl_stack",  mul |-> 1024 * 1024] }

\* cases 0x0201-0x0207; ok is the outcome of the host query
Opt_rlimit(d, ok) ==
    \E rc \in RLimitCases :
        /\ Getopt(d, rc.val)
        /\ LET r == parseRLimit(host, rc.res, d.optarg, rc.mul, ok)
           IN  IF r.fatal
               THEN /\ pc' = "done"
                    /\ result' = "fatal"
                    /\ out' = out \o r.log
                    /\ UNCHANGED <<nsjconf, host, command>>
               ELSE /\ nsjconf' = [nsjconf EXCEPT ![rc.field] = r.val]
                    /\ Break
                    /\ UNCHANGED out
        /\ UNCHANGED calls

\* Variant: -p stores the port and leaves the mode.
case_pPortOnly(conf, optarg) == [conf EXCEPT !.port = strtoull(optarg)]

\* case 'p'
case_p(conf, optarg) ==
    [conf EXCEPT !.port = strtoull(optarg), !.mode = "MODE_LISTEN_TCP"]

Opt_p(d) ==
    /\ Getopt(d, "p")
    /\ nsjconf' = case_p(nsjconf, d.optarg)
    /\ Break
    /\ UNCHANGED <<out, calls>>

\* Variant: a mode switch whose default branch selects listen-TCP.
ModeOfLenient(optarg) ==
    IF strlen(optarg) = 0 THEN ""
    ELSE CASE optarg[1] = "o" -> "MODE_STANDALONE_ONCE"
           [] optarg[1] = "e" -> "MODE_STANDALONE_EXECVE"
           [] optarg[1] = "r" -> "MODE_STANDALONE_RERUN"
           [] OTHER -> "MODE_LISTEN_TCP"

\* case 'M': the mode selected by optarg[0], "" for any other letter
ModeOf(optarg) ==
    IF strlen(optarg) = 0 THEN ""
    ELSE CASE optarg[1] = "l" -> "MODE_LISTEN_TCP"
           [] optarg[1] = "o" -> "MODE_STANDALONE_ONCE"
           [] optarg[1] = "e" -> "MODE_STANDALONE_EXECVE"
           [] optarg[1] = "r" -> "MODE_STANDALONE_RERUN"
           [] OTHER -> ""

Opt_M(d) ==
    /\ Getopt(d, "M")
    /\ UNCHANGED calls
    /\ IF ModeOf(d.optarg) # ""
       THEN /\ nsjconf' = [nsjconf EXCEPT !.mode = ModeOf(d.optarg)]
            /\ Break
            /\ UNCHANGED out
       ELSE /\ out' = out \o <<Line("LOG_E", "Modes supported")>> \o cmdlineUsage
            /\ ReturnNull
            /\ UNCHANGED nsjconf

\* The cases that store optarg or a flag in one field, by code: 'I', 0x0701,
\* 0x0702, 0x0703, 0x0407, 0x0408, 0x0822, 0x0832.
ScalarCodes == {"I", "0x0701", "0x0702", "0x0703", "0x0407", "0x0408", "0x0822", "0x0832"}

case_scalar(c, conf, optarg) ==
    CASE c = "I"      -> [conf EXCEPT !.iface_vs = optarg]
      [] c = "0x0701" -> [conf EXCEPT !.iface_vs_ip = optarg]
      [] c = "0x0702" -> [conf EXCEPT !.iface_vs_nm = optarg]
      [] c = "0x0703" -> [conf EXCEPT !.iface_vs_gw = optarg]
      [] c = "0x0407" -> [conf EXCEPT !.clone_newcgroup = FALSE]
      [] c = "0x0408" -> [conf EXCEPT !.clone_newcgroup = TRUE]
      [] c = "0x0822" -> [conf EXCEPT !.cgroup_net_cls_mount = optarg]
      [] c = "0x0832" -> [conf EXCEPT !.cgroup_cpu_mount = optarg]
      [] OTHER        -> conf

Opt_scalar(d) ==
    /\ getopt_long(d) \in ScalarCodes
    /\ Getopt(d, getopt_long(d))
    /\ nsjconf' = case_scalar(getopt_long(d), nsjconf, d.optarg)
    /\ Break
    /\ UNCHANGED <<out, calls>>

\* case 'l': the log file is stored, then the log sink is initialized; ok is
\* the verdict of log::initLogFile
Opt_l(d, ok) ==
    /\ Getopt(d, "l")
    /\ nsjconf' = [nsjconf EXCEPT !.logfile = d.optarg]
    /\ calls' = Append(calls, Call("log::initLogFile", [ret |-> ok]))
    /\ UNCHANGED out
    /\ IF ok THEN Break ELSE ReturnNull

\* caps::nameToVal: the number of a capability name, -1 for an unknown name
Str_CAP_CHOWN == <<"C", "A", "P", "_", "C", "H", "O", "W", "N">>

Str_CAP_KILL == <<"C", "A", "P", "_", "K", "I", "L", "L">>

nameToVal(name) ==
    IF name = Str_CAP_CHOWN THEN 0
    ELSE IF name = Str_CAP_KILL THEN 5
    ELSE -1

\* Variant: an unknown capability name is stored and parsing goes on.
Opt_capLenient(d) ==
    /\ Getopt(d, "0x0509")
    /\ calls' = Append(calls, Call("caps::nameToVal",
                                   [name |-> d.optarg, ret |-> nameToVal(d.optarg)]))
    /\ UNCHANGED out
    /\ nsjconf' = [nsjconf EXCEPT !.caps = Append(@, nameToVal(d.optarg))]
    /\ Break

\* case 0x0509
Opt_cap(d) ==
    /\ Getopt(d, "0x0509")
    /\ calls' = Append(calls, Call("caps::nameToVal",
                                   [name |-> d.optarg, ret |-> nameToVal(d.optarg)]))
    /\ UNCHANGED out
    /\ IF nameToVal(d.optarg) = -1
       THEN /\ ReturnNull
            /\ UNCHANGED nsjconf
       ELSE /\ nsjconf' = [nsjconf EXCEPT !.caps = Append(@, nameToVal(d.optarg))]
            /\ Break

\* case 'P': the policy path is stored, then access(path, R_OK) is asked; ok
\* tells whether the host lets the file be read
Opt_P(d, ok) ==
    /\ Getopt(d, "P")
    /\ nsjconf' = [nsjconf EXCEPT !.kafel_file_path = d.optarg]
    /\ calls' = Append(calls, Call("access", [path |-> d.optarg, ret |-> ok]))
    /\ IF ok
       THEN /\ Break
            /\ UNCHANGED out
       ELSE /\ out' = Append(out, Line("PLOG_E", "kafel config file cannot be opened for reading"))
            /\ ReturnNull

\* case 'h'
Opt_h(d) ==
    /\ Getopt(d, "h")
    /\ out' = out \o cmdlineUsage
    /\ pc' = "done"
    /\ result' = "exit0"
    /\ UNCHANGED <<nsjconf, calls, host, command>>

\* default: an option getopt_long does not know, or a missing value
Opt_default(d) ==
    /\ Getopt(d, "?")
    /\ out' = out \o cmdlineUsage
    /\ ReturnNull
    /\ UNCHANGED <<nsjconf, calls>>

\* getopt_long returns -1: the loop is left
EndOfOptions ==
    /\ pc = "getopt"
    /\ pc' = "proc"
    /\ UNCHANGED <<nsjconf, result, args, out, calls, host, command>>

----------------------------------------------------------------------------
(* parseArgs: after the loop, lines 762-840 *)

\* lines 762-768: the proc mount goes to the tail when proc mounting is on
Entry_proc(conf) ==
    MountPt(NULL, conf.proc_path, "proc", "",
            IF conf.is_proc_rw THEN {} ELSE {"MS_RDONLY"}, "NS_DIR_YES", TRUE, FALSE)

AppendProcMount(ok) ==
    /\ pc = "proc"
    /\ UNCHANGED args
    /\ IF nsjconf.mount_proc
       THEN AddMountPt("mnt::addMountPtTail", Entry_proc(nsjconf), ok, "root")
       ELSE /\ ok
            /\ pc' = "root"
            /\ UNCHANGED <<nsjconf, result, out, calls, host, command>>

\* Variant: a tmpfs root that ignores the rw setting.
Entry_rootTmpfsWritable(conf) ==
    IF conf.chroot # EmptyStr
    THEN MountPt(conf.chroot, Str_root, "", "",
                 IF conf.is_root_rw
                 THEN {"MS_BIND", "MS_REC", "MS_PRIVATE"}
                 ELSE {"MS_BIND", "MS_REC", "MS_PRIVATE", "MS_RDONLY"},
                 "NS_DIR_YES", TRUE, FALSE)
    ELSE MountPt(NULL, Str_root, "tmpfs", "", {}, "NS_DIR_YES", TRUE, FALSE)

\* lines 769-786: the root mount goes to the head, a bind mount of the chroot
\* directory or a tmpfs
Entry_root(conf) ==
    IF conf.chroot # EmptyStr
    THEN MountPt(conf.chroot, Str_root, "", "",
                 IF conf.is_root_rw
                 THEN {"MS_BIND", "MS_REC", "MS_PRIVATE"}
                 ELSE {"MS_BIND", "MS_REC", "MS_PRIVATE", "MS_RDONLY"},
                 "NS_DIR_YES", TRUE, FALSE)
    ELSE MountPt(NULL, Str_root, "tmpfs", "",
                 IF conf.is_root_rw THEN {} ELSE {"MS_RDONLY"},
                 "NS_DIR_YES", TRUE, FALSE)

\* Variant: the root mount appended at the tail.
AppendRootMount(ok) ==
    /\ pc = "root"
    /\ UNCHANGED args
    /\ AddMountPt("mnt::addMountPtTail", Entry_root(nsjconf), ok, "idmap")

InsertRootMount(ok) ==
    /\ pc = "root"
    /\ UNCHANGED args
    /\ AddMountPt("mnt::addMountPtHead", Entry_root(nsjconf), ok, "idmap")

\* Variant: the uid list defaulted to the caller's gid.
DefaultUidsFromGid(conf, h) ==
    IF conf.uids = <<>>
    THEN [conf EXCEPT !.uids = Append(@, IdMap(h.gid, h.gid, 1, FALSE))]
    ELSE conf

\* lines 788-803: an empty uid list gets the caller's uid, an empty gid list
\* the caller's gid
DefaultUids(conf, h) ==
    IF conf.uids = <<>>
    THEN [conf EXCEPT !.uids = Append(@, IdMap(h.uid, h.uid, 1, FALSE))]
    ELSE conf

\* Variant: an empty gid list is left empty.
KeepGids(conf, h) == conf

DefaultGids(conf, h) ==
    IF conf.gids = <<>>
    THEN [conf EXCEPT !.gids = Append(@, IdMap(h.gid, h.gid, 1, FALSE))]
    ELSE conf

DefaultIdMaps ==
    /\ pc = "idmap"
    /\ nsjconf' = DefaultGids(DefaultUids(nsjconf, host), host)
    /\ pc' = "log"
    /\ UNCHANGED <<result, args, out, calls, host, command>>

\* lines 805-807: log::initLogFile
InitLog(ok) ==
    /\ pc = "log"
    /\ calls' = Append(calls, Call("log::initLogFile", <<>>))
    /\ UNCHANGED <<nsjconf, args, out, host, command>>
    /\ IF ok
       THEN pc' = "cmd" /\ result' = result
       ELSE pc' = "done" /\ result' = "nullptr"

\* Variant: a command check that lets an empty command pass.
AcceptAnyCommand ==
    /\ pc = "cmd"
    /\ UNCHANGED <<args, calls, host, command, result, out>>
    /\ nsjconf' = [nsjconf EXCEPT
                      !.argv = command,
                      !.exec_file = IF @ = NULL /\ command # <<>> THEN command[1] ELSE @]
    /\ pc' = "execfd"

\* Lines 809-819: the positional command argv[optind..]; command = <<>> when
\* argv[optind] is the terminating null pointer.
RequireCommand ==
    /\ pc = "cmd"
    /\ UNCHANGED <<args, calls, host, command>>
    /\ IF command = <<>>
       THEN /\ out' = out \o cmdlineUsage \o <<Line("LOG_E", "No command provided")>>
            /\ pc' = "done"
            /\ result' = "nullptr"
            /\ UNCHANGED nsjconf
       ELSE /\ nsjconf' = [nsjconf EXCEPT
                              !.argv = command,
                              !.exec_file = IF @ = NULL THEN command[1] ELSE @]
            /\ pc' = "execfd"
            /\ UNCHANGED <<result, out>>

\* the descriptor a successful open returns
ExecFd == 3

\* Variant: the open attempted without regard to the command check.
OpenExecFileFirst(how) ==
    /\ pc \in {"cmd", "execfd"}
    /\ UNCHANGED <<args, host, command, result, out>>
    /\ how = "OK"
    /\ calls' = IF nsjconf.use_execveat
                THEN Append(calls, Call("open", nsjconf.exec_file))
                ELSE calls
    /\ nsjconf' = IF nsjconf.use_execveat
                  THEN [nsjconf EXCEPT !.exec_fd = ExecFd]
                  ELSE nsjconf
    /\ pc' = "policy"

\* Lines 821-833: with --execute_fd the exec file is opened; how is "ENOSYS"
\* for a build without __NR_execveat, "EFAIL" when open returns -1, "OK" when
\* it returns a descriptor.
OpenExecFile(how) ==
    /\ pc = "execfd"
    /\ UNCHANGED <<args, host, command>>
    /\ IF ~nsjconf.use_execveat
       THEN /\ how = "OK"
            /\ pc' = "policy"
            /\ UNCHANGED <<nsjconf, result, out, calls>>
       ELSE IF how = "ENOSYS"
       THEN /\ out' = Append(out, Line("LOG_E", "compiled without execveat"))
            /\ pc' = "done"
            /\ result' = "nullptr"
            /\ UNCHANGED <<nsjconf, calls>>
       ELSE /\ calls' = Append(calls, Call("open", nsjconf.exec_file))
            /\ IF how = "OK"
               THEN /\ nsjconf' = [nsjconf EXCEPT !.exec_fd = ExecFd]
                    /\ pc' = "policy"
                    /\ UNCHANGED <<result, out>>
               ELSE /\ nsjconf' = [nsjconf EXCEPT !.exec_fd = -1]
                    /\ out' = Append(out, Line("PLOG_W", "Couldn't open file"))
                    /\ pc' = "done"
                    /\ result' = "nullptr"

\* lines 835-840: sandbox::preparePolicy, then the specification is returned
PreparePolicy(ok) ==
    /\ pc = "policy"
    /\ calls' = Append(calls, Call("sandbox::preparePolicy", <<>>))
    /\ pc' = "done"
    /\ UNCHANGED <<nsjconf, args, host, command>>
    /\ IF ok
       THEN result' = "nsjconf" /\ out' = out
       ELSE /\ result' = "nullptr"
            /\ out' = Append(out, Line("LOG_E", "Couldn't prepare sandboxing setup"))

Finalize ==
    \/ EndOfOptions
    \/ \E ok \in BOOLEAN : AppendProcMount(ok)
    \/ \E ok \in BOOLEAN : InsertRootMount(ok)
    \/ DefaultIdMaps
    \/ \E ok \in BOOLEAN : InitLog(ok)
    \/ RequireCommand
    \/ \E how \in {"OK", "EFAIL", "ENOSYS"} : OpenExecFile(how)
    \/ \E ok \in BOOLEAN : PreparePolicy(ok)

----------------------------------------------------------------------------
(* Specifications: command lines over one family of directives each *)

Path_a == <<"/", "a">>

Path_b == <<"/", "b">>

Path_jail == <<"/", "j">>

BindArgs == {Path_a, Join(<<Path_a, Path_b>>)}

\* the directives of the mount plan and of the execution target
MountDirectives ==
    {Short("c", Path_jail), Long("rw", NULL), Long("disable_proc", NULL),
     Long("proc_rw", NULL), Short("T", Path_b), Short("x", Path_b), Long("execute_fd", NULL)}
        \cup {Short("R", a) : a \in BindArgs}
        \cup {Long("bindmount", a) : a \in BindArgs}

\* the directives getopt_long may still return on a command line of at most
\* max directives
Pending(directives, max) == IF Len(args) < max THEN directives ELSE {}

Next ==
    \/ \E d \in Pending(MountDirectives, MaxOpts) : Opt_c(d)
    \/ \E d \in Pending(MountDirectives, MaxOpts) : Opt_rw(d)
    \/ \E d \in Pending(MountDirectives, MaxOpts) : Opt_disable_proc(d)
    \/ \E d \in Pending(MountDirectives, MaxOpts) : Opt_proc_rw(d)
    \/ \E d \in Pending(MountDirectives, MaxOpts) : Opt_x(d)
    \/ \E d \in Pending(MountDirectives, MaxOpts) : Opt_execute_fd(d)
    \/ \E d \in Pending(MountDirectives, MaxOpts), ok \in BOOLEAN : Opt_R(d, ok)
    \/ \E d \in Pending(MountDirectives, MaxOpts), ok \in BOOLEAN : Opt_B(d, ok)
    \/ \E d \in Pending(MountDirectives, MaxOpts), ok \in BOOLEAN : Opt_T(d, ok)
    \/ Finalize

Spec == Init /\ [][Next]_vars

\* the directives of the identity maps: every option with every token
IdInside == {<<"7">>, <<"x">>}

IdOutside == {<<"0">>, <<"9">>}

IdCounts == {<<>>, <<"0">>, <<"3">>, <<"x">>, <<"0", "1", "0">>, <<"1", "2">>}

IdArgs ==
    {Join(<<i>>) : i \in IdInside}
        \cup {Join(<<i, o>>) : i \in IdInside, o \in IdOutside}
        \cup {Join(<<i, o, c>>) : i \in {<<"7">>}, o \in IdOutside, c \in IdCounts}

IdDirectives ==
    {Short("u", a) : a \in IdArgs} \cup {Long("group", a) : a \in IdArgs}
        \cup {Long("uid_mapping", a) : a \in IdArgs} \cup {Short("G", a) : a \in IdArgs}

NextId ==
    \/ \E d \in Pending(IdDirectives, MaxArgOpts), allow \in BOOLEAN : Opt_u(d, allow)
    \/ \E d \in Pending(IdDirectives, MaxArgOpts), allow \in BOOLEAN : Opt_g(d, allow)
    \/ \E d \in Pending(IdDirectives, MaxArgOpts), allow \in BOOLEAN : Opt_U(d, allow)
    \/ \E d \in Pending(IdDirectives, MaxArgOpts), allow \in BOOLEAN : Opt_G(d, allow)
    \/ Finalize

SpecId == Init /\ [][NextId]_vars

\* the directives of the resource limits: every kind with every token
RLimitArgs ==
    { <<"i", "n", "f">>, <<"I", "n", "F">>, <<"d", "e", "f">>, <<"D", "E", "F">>,
      <<"s", "o", "f", "t">>, <<"S", "o", "f", "t">>, <<"m", "a", "x">>,
      <<"M", "a", "X">>, <<"h", "a", "r", "d">>, <<"H", "A", "R", "D">>,
      <<"0">>, <<"7">>, <<"1", "0">>, <<"2", "0", "4", "7">>, <<"0", "1", "0">>,
      <<"x">>, <<"i", "n", "f", "o">> }

RLimitDirectives ==
    {Long(n, a) : n \in {"rlimit_as", "rlimit_core", "rlimit_cpu", "rlimit_fsize",
                         "rlimit_nofile", "rlimit_nproc", "rlimit_stack"},
                  a \in RLimitArgs}

NextRLimit ==
    \/ \E d \in Pending(RLimitDirectives, MaxArgOpts), ok \in BOOLEAN : Opt_rlimit(d, ok)
    \/ Finalize

SpecRLimit == Init /\ [][NextRLimit]_vars

\* the directives of the execution mode
ModeDirectives ==
    {Short("M", <<m>>) : m \in {"l", "o", "e", "r", "z"}}
        \cup {Long("mode", <<"r", "e">>), Short("p", <<"8", "0">>)}

NextMode ==
    \/ \E d \in Pending(ModeDirectives, MaxOpts) : Opt_M(d)
    \/ \E d \in Pending(ModeDirectives, MaxOpts) : Opt_p(d)
    \/ Finalize

SpecMode == Init /\ [][NextMode]_vars

\* the deprecated options, their replacements, the cgroup mount paths, help
\* and options getopt_long rejects
Str_eth == <<"e", "0">>

OptionDirectives ==
    {Long(n, Str_eth) : n \in {"iface", "macvlan_iface", "iface_vs_ip", "macvlan_vs_ip",
                               "iface_vs_nm", "macvlan_vs_nm", "iface_vs_gw",
                               "macvlan_vs_gw", "cgroup_net_cls_mount",
                               "cgroup_cpu_mount"}}
        \cup {Long(n, NULL) : n \in {"enable_clone_newcgroup", "disable_clone_newcgroup",
                                     "help", "no_such_option", "iface"}}
        \cup {Short("I", Str_eth), Short("h", NULL), Short("Z", NULL)}

NextOptions ==
    \/ \E d \in Pending(OptionDirectives, MaxScalarOpts) : Opt_scalar(d)
    \/ \E d \in Pending(OptionDirectives, MaxScalarOpts) : Opt_h(d)
    \/ \E d \in Pending(OptionDirectives, MaxScalarOpts) : Opt_default(d)
    \/ Finalize

SpecOptions == Init /\ [][NextOptions]_vars

\* the directives that decide the root mount: two chroot sources, an empty
\* one, and --rw
RootDirectives ==
    { Short("c", Path_jail), Long("chroot", Path_a), Short("c", EmptyStr),
      Long("rw", NULL) }

NextRoot ==
    \/ \E d \in Pending(RootDirectives, MaxOpts) : Opt_c(d)
    \/ \E d \in Pending(RootDirectives, MaxOpts) : Opt_rw(d)
    \/ Finalize

SpecRoot == Init /\ [][NextRoot]_vars

\* values with an empty part behind the last colon, beside the same values
\* without that colon
SplitIdArgs == {<<"7", ":", "9">>, <<"7", ":", "9", ":">>, <<"7", ":", "9", ":", "3">>}

SplitBindArgs == {Path_a, Path_a \o <<":">>, Join(<<Path_a, Path_b>>)}

SplitDirectives ==
    {Short("u", a) : a \in SplitIdArgs} \cup {Short("G", a) : a \in SplitIdArgs}
        \cup {Short("R", a) : a \in SplitBindArgs}
        \cup {Short("B", a) : a \in SplitBindArgs}

NextSplit ==
    \/ \E d \in Pending(SplitDirectives, MaxArgOpts), allow \in BOOLEAN : Opt_u(d, allow)
    \/ \E d \in Pending(SplitDirectives, MaxArgOpts), allow \in BOOLEAN : Opt_G(d, allow)
    \/ \E d \in Pending(SplitDirectives, MaxArgOpts), ok \in BOOLEAN : Opt_R(d, ok)
    \/ \E d \in Pending(SplitDirectives, MaxArgOpts), ok \in BOOLEAN : Opt_B(d, ok)
    \/ Finalize

SpecSplit == Init /\ [][NextSplit]_vars

\* directives that can fail, each beside one that succeeds
MaxFailOpts == 3

FailDirectives ==
    { Short("c", Path_jail), Short("l", Path_a), Short("P", Path_b),
      Long("cap", Str_CAP_CHOWN), Long("cap", Str_CAP_KILL), Long("cap", <<"x">>),
      Long("cap", NULL), Long("no_such_option", NULL), Short("Z", NULL),
      Short("M", <<"e">>), Short("M", <<"z">>),
      Short("u", <<"7", ":", "9">>), Short("u", <<"x", ":", "9">>),
      Long("bindmount_ro", Path_a) }

NextFail ==
    \/ \E d \in Pending(FailDirectives, MaxFailOpts) : Opt_c(d)
    \/ \E d \in Pending(FailDirectives, MaxFailOpts), ok \in BOOLEAN : Opt_l(d, ok)
    \/ \E d \in Pending(FailDirectives, MaxFailOpts), ok \in BOOLEAN : Opt_P(d, ok)
    \/ \E d \in Pending(FailDirectives, MaxFailOpts) : Opt_cap(d)
    \/ \E d \in Pending(FailDirectives, MaxFailOpts) : Opt_M(d)
    \/ \E d \in Pending(FailDirectives, MaxFailOpts), allow \in BOOLEAN : Opt_u(d, allow)
    \/ \E d \in Pending(FailDirectives, MaxFailOpts), ok \in BOOLEAN : Opt_R(d, ok)
    \/ \E d \in Pending(FailDirectives, MaxFailOpts) : Opt_default(d)
    \/ Finalize

SpecFail == Init /\ [][NextFail]_vars

----------------------------------------------------------------------------
(* Vocabulary of the properties *)

\* the directives of args written with one of the given option names
Named(names) == SelectSeq(args, LAMBDA d : d.name \in names)

Given(names) == \E i \in 1..Len(args) : args[i].name \in names

LastArg == args[Len(args)]

Colons(t) == {i \in 1..Len(t) : t[i] = ":"}

\* t is the text left, a ':', the text right, and neither holds a ':'
IsPair(t, left, right) ==
    /\ ":" \notin {left[i] : i \in 1..Len(left)}
    /\ ":" \notin {right[i] : i \in 1..Len(right)}
    /\ t = left \o <<":">> \o right

\* a decimal numeral without a leading zero
IsDecimal(t) ==
    /\ Len(t) > 0
    /\ \A i \in 1..Len(t) : t[i] \in {"0", "1", "2", "3", "4", "5", "6", "7", "8", "9"}
    /\ Len(t) > 1 => t[1] # "0"

RECURSIVE Pow10(_)
Pow10(k) == IF k = 0 THEN 1 ELSE 10 * Pow10(k - 1)

RECURSIVE SumOver(_, _)
SumOver(f, S) ==
    IF S = {} THEN 0
    ELSE LET x == CHOOSE y \in S : TRUE IN f[x] + SumOver(f, S \ {x})

\* the number a decimal numeral denotes
DecimalValue(t) ==
    SumOver([i \in 1..Len(t) |-> DigitVal[t[i]] * Pow10(Len(t) - i)], 1..Len(t))

UsageShown == \E i \in 1..Len(out) : out[i] = Line("HELP", "Deprecated options:")

Said(kind, text) == \E i \in 1..Len(out) : out[i] = Line(kind, text)

Called(fn) == \E i \in 1..Len(calls) : calls[i].fn = fn

BindRoNames == {"R", "bindmount_ro"}

BindRwNames == {"B", "bindmount"}

TmpfsNames == {"T", "tmpfsmount"}

UserMountNames == BindRoNames \cup BindRwNames \cup TmpfsNames

\* mount entry m is what directive d asks for
IsMountOf(m, d) ==
    IF d.name \in TmpfsNames
    THEN m.src = NULL /\ m.dst = d.optarg /\ m.fs_type = "tmpfs"
    ELSE /\ "MS_BIND" \in m.flags
         /\ \/ Colons(d.optarg) = {} /\ m.src = d.optarg /\ m.dst = d.optarg
            \/ IsPair(d.optarg, m.src, m.dst)

----------------------------------------------------------------------------
(* C1: a successful parseArgs returns the mount sequence [root entry with
   destination /], then the entries of the -R/-B/-T directives in
   command-line order, then the proc entry exactly when --disable_proc was
   not given; wherever -c stands among the directives. *)
C1_MountOrder ==
    result = "nsjconf" =>
        LET m      == nsjconf.mountpts
            user   == Named(UserMountNames)
            procOn == ~Given({"disable_proc"})
        IN  /\ Len(m) = 1 + Len(user) + (IF procOn THEN 1 ELSE 0)
            /\ m[1].dst = <<"/">>
            /\ Given({"c", "chroot"}) => m[1].src = Path_jail /\ "MS_BIND" \in m[1].flags
            /\ ~Given({"c", "chroot"}) => m[1].src = NULL /\ m[1].fs_type = "tmpfs"
            /\ \A j \in 1..Len(user) : IsMountOf(m[1 + j], user[j])
            /\ procOn => /\ m[Len(m)].fs_type = "proc"
                         /\ m[Len(m)].src = NULL
                         /\ m[Len(m)].dst = <<"/", "p", "r", "o", "c">>

\* -B /a, then -c /j, then -T /b: [/j->/, /a->/a, /b tmpfs, proc->/proc]
C1_Witness ==
    /\ result = "nsjconf"
    /\ args = <<Long("bindmount", Path_a), Short("c", Path_jail), Short("T", Path_b)>>
    /\ Len(nsjconf.mountpts) = 4
    /\ nsjconf.mountpts[1].src = Path_jail
    /\ nsjconf.mountpts[4].fs_type = "proc"

(* C6: for -R and -B a value /src:/dst gives an entry with source /src and
   destination /dst, a value /src without colon gives source and destination
   /src; the -R entry is read-only, the -B entry is not. *)
C6_BindSplit ==
    pc = "getopt" =>
        LET user == Named(UserMountNames)
        IN  /\ Len(nsjconf.mountpts) = Len(user)
            /\ \A j \in 1..Len(user) :
                 LET m == nsjconf.mountpts[j]
                     t == user[j].optarg
                 IN  user[j].name \in BindRoNames \cup BindRwNames =>
                        /\ Colons(t) = {} => m.src = t /\ m.dst = t
                        /\ \A p \in Colons(t) :
                             Colons(t) = {p} =>
                                /\ m.src = SubSeq(t, 1, p - 1)
                                /\ m.dst = SubSeq(t, p + 1, Len(t))
                        /\ ("MS_RDONLY" \in m.flags) = (user[j].name \in BindRoNames)

C6_Witness ==
    /\ pc = "getopt"
    /\ args = <<Short("R", <<"/", "a", ":", "/", "b">>), Long("bindmount", Path_a)>>
    /\ nsjconf.mountpts[1].src = Path_a
    /\ nsjconf.mountpts[1].dst = Path_b
    /\ nsjconf.mountpts[2].dst = Path_a

UidNames == {"u", "user", "U", "uid_mapping"}

GidNames == {"g", "group", "G", "gid_mapping"}

NewIdMapNames == {"U", "uid_mapping", "G", "gid_mapping"}

----------------------------------------------------------------------------
(* C2: without any --user/--group/--uid_mapping/--gid_mapping directive a
   successful parseArgs returns one uid mapping and one gid mapping, each
   inside = outside = the caller's real id, count 1, not through the helper;
   each list is defaulted on its own and only when it is empty. *)
C2_DefaultIdMaps ==
    result = "nsjconf" =>
        /\ ~Given(UidNames) => nsjconf.uids = <<IdMap(host.uid, host.uid, 1, FALSE)>>
        /\ ~Given(GidNames) => nsjconf.gids = <<IdMap(host.gid, host.gid, 1, FALSE)>>
        /\ Given(UidNames) => Len(nsjconf.uids) = Len(Named(UidNames))
        /\ Given(GidNames) => Len(nsjconf.gids) = Len(Named(GidNames))

C2_Witness ==
    /\ result = "nsjconf"
    /\ args = <<>>
    /\ Len(nsjconf.uids) = 1
    /\ Len(nsjconf.gids) = 1
    /\ nsjconf.uids[1].inside_id = host.uid
    /\ nsjconf.gids[1].outside_id = host.gid

(* C3: for -u, -g, -U, -G a value a:b:c reaches the identity-map builder as
   inside a, outside b, count c, a value a:b as inside a, outside b, count 1;
   -u/-U go to the user list and -g/-G to the group list, and the helper flag
   is set exactly for -U/-G.  (c a decimal numeral.) *)
C3_IdCall ==
    \A k \in 1..Len(args) :
        LET d == args[k]
            t == d.optarg
        IN  d.name \in UidNames \cup GidNames =>
              /\ k <= Len(calls)
              /\ calls[k].fn = "user::parseId"
              /\ calls[k].a.is_gid = (d.name \in GidNames)
              /\ calls[k].a.is_newidmap = (d.name \in NewIdMapNames)
              /\ \A p \in Colons(t) :
                    /\ Colons(t) = {p} =>
                          /\ calls[k].a.i_id = SubSeq(t, 1, p - 1)
                          /\ calls[k].a.o_id = SubSeq(t, p + 1, Len(t))
                          /\ calls[k].a.count = 1
                    /\ \A q \in Colons(t) :
                          (Colons(t) = {p, q} /\ p < q /\ IsDecimal(SubSeq(t, q + 1, Len(t)))) =>
                             /\ calls[k].a.i_id = SubSeq(t, 1, p - 1)
                             /\ calls[k].a.o_id = SubSeq(t, p + 1, q - 1)
                             /\ calls[k].a.count = DecimalValue(SubSeq(t, q + 1, Len(t)))
                    /\ \A q \in Colons(t) :
                          (Colons(t) = {p, q} /\ p < q /\ q < Len(t)) =>
                             calls[k].a.count = strtoull(SubSeq(t, q + 1, Len(t)))

\* -G 7:9:12 has reached the builder as gid mapping 7 -> 9, count 12, helper
C3_Witness ==
    /\ args = <<Short("G", <<"7", ":", "9", ":", "1", "2">>)>>
    /\ calls[1].a.i_id = <<"7">>
    /\ calls[1].a.o_id = <<"9">>
    /\ calls[1].a.count = 12
    /\ calls[1].a.is_gid
    /\ calls[1].a.is_newidmap
    /\ nsjconf.gids = <<IdMap(7, 9, 12, TRUE)>>

RLimitNames ==
    {"rlimit_as", "rlimit_core", "rlimit_cpu", "rlimit_fsize", "rlimit_nofile",
     "rlimit_nproc", "rlimit_stack"}

\* the field, the host limit kind and the unit of a limit option
LimitField(name) ==
    CASE name = "rlimit_as" -> nsjconf.rl_as
      [] name = "rlimit_core" -> nsjconf.rl_core
      [] name = "rlimit_cpu" -> nsjconf.rl_cpu
      [] name = "rlimit_fsize" -> nsjconf.rl_fsize
      [] name = "rlimit_nofile" -> nsjconf.rl_nofile
      [] name = "rlimit_nproc" -> nsjconf.rl_nproc
      [] name = "rlimit_stack" -> nsjconf.rl_stack

HostLimit(name) ==
    CASE name = "rlimit_as" -> host.rlimit["RLIMIT_AS"]
      [] name = "rlimit_core" -> host.rlimit["RLIMIT_CORE"]
      [] name = "rlimit_cpu" -> host.rlimit["RLIMIT_CPU"]
      [] name = "rlimit_fsize" -> host.rlimit["RLIMIT_FSIZE"]
      [] name = "rlimit_nofile" -> host.rlimit["RLIMIT_NOFILE"]
      [] name = "rlimit_nproc" -> host.rlimit["RLIMIT_NPROC"]
      [] name = "rlimit_stack" -> host.rlimit["RLIMIT_STACK"]

UnitOf(name) ==
    IF name \in {"rlimit_as", "rlimit_core", "rlimit_fsize", "rlimit_stack"}
    THEN 1024 * 1024
    ELSE 1

\* a run of decimal digits
IsDigits(t) ==
    /\ Len(t) > 0
    /\ \A i \in 1..Len(t) : t[i] \in {"0", "1", "2", "3", "4", "5", "6", "7", "8", "9"}

\* a numeral of octal digits behind a leading zero
IsOctal(t) ==
    /\ Len(t) > 1
    /\ t[1] = "0"
    /\ \A i \in 1..Len(t) : t[i] \in {"0", "1", "2", "3", "4", "5", "6", "7"}

RECURSIVE Pow8(_)
Pow8(k) == IF k = 0 THEN 1 ELSE 8 * Pow8(k - 1)

\* the number an octal numeral denotes
OctalValue(t) ==
    SumOver([i \in 1..Len(t) |-> DigitVal[t[i]] * Pow8(Len(t) - i)], 1..Len(t))

\* The k-th directive, a limit option, has stored n units in its field,
\* unless the host query failed at it or a later directive wrote the field.
LimitIs(k, n) ==
    IF k = Len(args) /\ result = "fatal"
    THEN out[Len(out)] = Line("PLOG_F", "getrlimit")
    ELSE (\A j \in (k + 1)..Len(args) : args[j].name # args[k].name) =>
            LimitField(args[k].name) = n * UnitOf(args[k].name)

(* C4 as stated: for every limit kind a token that is a non-negative integer
   n, written in decimal digits, gives the limit n times the unit of the
   kind. *)
C4_Original ==
    \A k \in 1..Len(args) :
        (args[k].name \in RLimitNames /\ IsDigits(args[k].optarg)) =>
            LimitIs(k, DecimalValue(args[k].optarg))

(* C4 amended: for every limit kind a token of decimal digits without a
   leading zero, denoting n, gives the limit n times the unit of the kind:
   1024*1024 for address space, core, file size and stack, 1 for cpu seconds,
   open files and processes.  A token of octal digits behind a leading zero
   is read in base 8: 010 gives 8 times the unit. *)
C4_NumericLimit ==
    \A k \in 1..Len(args) :
        args[k].name \in RLimitNames =>
            /\ IsDecimal(args[k].optarg) => LimitIs(k, DecimalValue(args[k].optarg))
            /\ IsOctal(args[k].optarg) => LimitIs(k, OctalValue(args[k].optarg))

\* --rlimit_as 10 gives 10 MiB
C4_Witness ==
    /\ args = <<Long("rlimit_as", <<"1", "0">>)>>
    /\ pc = "getopt"
    /\ nsjconf.rl_as = 10 * 1024 * 1024

SpelledInf == {<<"i", "n", "f">>, <<"I", "n", "F">>}

SpelledSoft == {<<"d", "e", "f">>, <<"D", "E", "F">>, <<"s", "o", "f", "t">>, <<"S", "o", "f", "t">>}

SpelledHard == {<<"m", "a", "x">>, <<"M", "a", "X">>, <<"h", "a", "r", "d">>, <<"H", "A", "R", "D">>}

(* C5: for every limit kind the keywords are read without regard to case and
   without the unit: inf gives the unbounded value, def and soft the host's
   current soft limit of that kind, max and hard its current hard limit.
   inf needs no host query, so it cannot end in the fatal exit; the others
   end in it only when the host query fails. *)
C5_KeywordLimit ==
    (Len(args) > 0 /\ LastArg.name \in RLimitNames) =>
        /\ LastArg.optarg \in SpelledInf =>
              /\ result # "fatal"
              /\ LimitField(LastArg.name) = RLIM64_INFINITY
        /\ (LastArg.optarg \in SpelledSoft /\ result # "fatal") =>
              LimitField(LastArg.name) = HostLimit(LastArg.name).rlim_cur
        /\ (LastArg.optarg \in SpelledHard /\ result # "fatal") =>
              LimitField(LastArg.name) = HostLimit(LastArg.name).rlim_max
        /\ (LastArg.optarg \in SpelledSoft \cup SpelledHard /\ result = "fatal") =>
              out[Len(out)] = Line("PLOG_F", "getrlimit")

\* --rlimit_fsize DEF gives the soft file-size limit of the host
C5_Witness ==
    /\ args = <<Long("rlimit_fsize", <<"D", "E", "F">>)>>
    /\ pc = "getopt"
    /\ nsjconf.rl_fsize = host.rlimit["RLIMIT_FSIZE"].rlim_cur
    /\ nsjconf.rl_fsize # 1024 * 1024

ModeNames == {"M", "mode"}

\* the step in which getopt_long returns a directive with one of the names
Reads(names) ==
    /\ pc = "getopt"
    /\ Len(args') = Len(args) + 1
    /\ args'[Len(args')].name \in names

ModeOfLetter(c) ==
    CASE c = "l" -> "MODE_LISTEN_TCP"
      [] c = "o" -> "MODE_STANDALONE_ONCE"
      [] c = "e" -> "MODE_STANDALONE_EXECVE"
      [] c = "r" -> "MODE_STANDALONE_RERUN"

\* parseArgs has shown the usage and returned nullptr, the mode untouched
ModeRejected ==
    /\ result' = "nullptr"
    /\ pc' = "done"
    /\ nsjconf' = nsjconf
    /\ \E i \in (Len(out) + 1)..Len(out') : out'[i] = Line("HELP", "Usage")

ModeSelected(c) ==
    /\ result' = "pending"
    /\ pc' = "getopt"
    /\ nsjconf' = [nsjconf EXCEPT !.mode = ModeOfLetter(c)]
    /\ out' = out

----------------------------------------------------------------------------
(* C7 as stated: a -M value that is not one of l, o, e, r makes parseArgs
   show the usage and return nullptr with the mode unchanged; the values l,
   o, e, r select listen-TCP, standalone-once, standalone-execve,
   standalone-rerun. *)
C7_Original ==
    [][Reads(ModeNames) =>
          LET v == args'[Len(args')].optarg
          IN  IF v \in {<<"l">>, <<"o">>, <<"e">>, <<"r">>}
              THEN ModeSelected(v[1])
              ELSE ModeRejected]_vars

(* C7 amended: only the first character of the -M value is read.  A value
   that is empty or begins with another character than l, o, e, r makes
   parseArgs show the usage and return nullptr with the mode unchanged; a
   value beginning with l, o, e, r selects listen-TCP, standalone-once,
   standalone-execve, standalone-rerun, whatever follows the letter. *)
C7_ModeLetter ==
    [][Reads(ModeNames) =>
          LET v == args'[Len(args')].optarg
          IN  IF Len(v) > 0 /\ v[1] \in {"l", "o", "e", "r"}
              THEN ModeSelected(v[1])
              ELSE ModeRejected]_vars

\* -p 80 -M z: usage shown, nullptr, the mode still the one -p had set
C7_Witness ==
    /\ args = <<Short("p", <<"8", "0">>), Short("M", <<"z">>)>>
    /\ result = "nullptr"
    /\ UsageShown
    /\ nsjconf.mode = "MODE_LISTEN_TCP"

(* C8: without a positional command parseArgs fails, whatever directives
   were given: the command check shows the usage, reports 'No command
   provided' and returns nullptr, and no specification is ever returned. *)
C8_NoCommand ==
    /\ [](command = <<>> => result # "nsjconf")
    /\ [][(pc = "cmd" /\ command = <<>>) =>
            /\ result' = "nullptr"
            /\ pc' = "done"
            /\ out' = out \o cmdlineUsage \o <<Line("LOG_E", "No command provided")>>]_vars

C8_Witness ==
    /\ command = <<>>
    /\ Len(args) = 3
    /\ result = "nullptr"
    /\ UsageShown
    /\ out[Len(out)] = Line("LOG_E", "No command provided")

DeprecatedNames ==
    {"iface", "iface_vs_ip", "iface_vs_nm", "iface_vs_gw", "enable_clone_newcgroup"}

\* every option name of the two tables and the code getopt_long returns for
\* it when it is written with the value it requires
OptionNames == {opts[i].name : i \in 1..Len(opts)}

ValueFor ==
    [n \in OptionNames |->
        IF \E i \in 1..Len(opts) : opts[i].name = n /\ opts[i].has_arg
        THEN Str_eth
        ELSE NULL]

DecodedCode == [n \in OptionNames |-> getopt_long(Long(n, ValueFor[n]))]

\* Parsing alias changes the specification as parsing the canonical option
\* repl does: the same value is taken and the switch case has the same effect.
DecodesAs(alias, repl) ==
    /\ ValueFor[alias] = ValueFor[repl]
    /\ DecodedCode[alias] \in ScalarCodes
    /\ DecodedCode[repl] \in ScalarCodes
    /\ \A conf \in {[nsjconf EXCEPT !.clone_newcgroup = b] : b \in BOOLEAN} :
         case_scalar(DecodedCode[alias], conf, ValueFor[alias])
           = case_scalar(DecodedCode[repl], conf, ValueFor[repl])

\* the usage on the console names repl as the replacement of alias
NoticeNames(alias, repl) ==
    \E i \in 1..(Len(out) - 1) :
        /\ out[i] = Line("OPT", alias)
        /\ out[i + 1] = Line("DEPRECATED", repl)

\* the usage on the console has no notice under alias
NoNotice(alias) ==
    \A i \in 1..(Len(out) - 1) :
        out[i] = Line("OPT", alias) => out[i + 1].kind # "DEPRECATED"

CanonicalNames == {custom_opts[i].name : i \in 1..Len(custom_opts)}

CanonicalCodes == {custom_opts[i].val : i \in 1..Len(custom_opts)}

(* C9 as stated: each of the five deprecated aliases has a replacement in
   the canonical table that it decodes as, and the usage display prints a
   deprecation notice naming that replacement for each of the five. *)
C9_Original ==
    \A n \in DeprecatedNames :
        \E r \in CanonicalNames :
            /\ Given({n}) => DecodesAs(n, r)
            /\ UsageShown => NoticeNames(n, r)

(* C9 amended: --iface, --iface_vs_ip, --iface_vs_nm, --iface_vs_gw decode
   as --macvlan_iface, --macvlan_vs_ip, --macvlan_vs_nm, --macvlan_vs_gw and
   the usage display prints a notice naming that replacement for each of the
   four.  --enable_clone_newcgroup has no replacement: no canonical option
   carries its code or decodes as it does, it sets clone_newcgroup, and the
   usage display prints no notice for it. *)
C9_Deprecated ==
    /\ \A p \in { <<"iface", "macvlan_iface">>, <<"iface_vs_ip", "macvlan_vs_ip">>,
                  <<"iface_vs_nm", "macvlan_vs_nm">>, <<"iface_vs_gw", "macvlan_vs_gw">> } :
          /\ p[2] \in CanonicalNames
          /\ DecodesAs(p[1], p[2])
          /\ UsageShown => NoticeNames(p[1], p[2])
    /\ DecodedCode["enable_clone_newcgroup"] \notin CanonicalCodes
    /\ \A r \in CanonicalNames : ~DecodesAs("enable_clone_newcgroup", r)
    /\ UsageShown => NoNotice("enable_clone_newcgroup")
    /\ \A k \in 1..Len(args) :
          (args[k].name = "enable_clone_newcgroup"
              /\ \A j \in (k + 1)..Len(args) : args[j].name # "disable_clone_newcgroup")
          => nsjconf.clone_newcgroup
    /\ \A k \in 1..Len(args) :
          (args[k].name \in {"iface", "macvlan_iface"} /\ args[k].optarg # NULL
              /\ \A j \in (k + 1)..Len(args) : args[j].name \notin {"iface", "macvlan_iface", "I"})
          => nsjconf.iface_vs = args[k].optarg

\* --iface e0 has set the interface, then --help has printed the usage
C9_Witness ==
    /\ args = <<Long("iface", Str_eth), Long("help", NULL)>>
    /\ nsjconf.iface_vs = Str_eth
    /\ result = "exit0"
    /\ NoticeNames("iface", "macvlan_iface")
    /\ NoNotice("enable_clone_newcgroup")

\* the place of a collaborator call in the finalization: 0 for the calls the
\* directives make
StepOf(call) ==
    CASE call.fn = "mnt::addMountPtTail" -> IF call.a.fs_type = "proc" THEN 1 ELSE 0
      [] call.fn = "mnt::addMountPtHead" -> 2
      [] call.fn = "log::initLogFile" -> 3
      [] call.fn = "open" -> 5
      [] call.fn = "sandbox::preparePolicy" -> 6
      [] OTHER -> 0

CommandChecked == nsjconf.argv # NoArgv \/ Said("LOG_E", "No command provided")

IdMapsDefaulted == nsjconf.uids # <<>> /\ nsjconf.gids # <<>>

----------------------------------------------------------------------------
\* The order of the steps other than the open and the command check, and
\* the end of the finalization at the first step that fails.
FinalizeStepsKept ==
    /\ \A i, j \in 1..Len(calls) :
          i < j => /\ StepOf(calls[i]) <= StepOf(calls[j])
                   /\ StepOf(calls[i]) > 0 => StepOf(calls[i]) < StepOf(calls[j])
    /\ Called("mnt::addMountPtHead") =>
          (nsjconf.mount_proc => \E i \in 1..Len(calls) : StepOf(calls[i]) = 1)
    /\ IdMapsDefaulted =>
          /\ Called("mnt::addMountPtHead")
          /\ nsjconf.mountpts[1].dst = Str_root
    /\ CommandChecked => IdMapsDefaulted
    /\ Called("sandbox::preparePolicy") =>
          /\ nsjconf.argv = command
          /\ command # <<>>
          /\ nsjconf.use_execveat => Called("open") /\ nsjconf.exec_fd = ExecFd
    /\ result = "nsjconf" => Called("sandbox::preparePolicy")
    /\ result # "pending" => pc = "done" /\ ~ENABLED Finalize

(* C10 as stated: the finalization runs in the fixed order proc mount, root
   mount, id-map defaults, open of the execution target, command check,
   policy preparation; with descriptor-based execution requested the open
   has been attempted by the time the command check is made. *)
C10_Original ==
    /\ FinalizeStepsKept
    /\ (nsjconf.use_execveat /\ CommandChecked) => Called("open")

(* C10 amended: the finalization runs in the fixed order (1) append the proc
   mount if enabled, (2) head-insert the root mount, (3) default the empty
   id-map lists, (4) require a non-empty positional command, (5) open the
   execution target when descriptor-based execution was requested, (6) call
   policy preparation.  The command check is made before the open is
   attempted, and a failure at any step prevents every later step. *)
C10_FinalizeOrder ==
    /\ FinalizeStepsKept
    /\ Called("open") =>
          /\ nsjconf.argv = command
          /\ command # <<>>
          /\ ~Said("LOG_E", "No command provided")

\* --execute_fd without a command: the command check has failed and open was
\* never called
C10_Witness ==
    /\ Given({"execute_fd"})
    /\ command = <<>>
    /\ Said("LOG_E", "No command provided")
    /\ result = "nullptr"
    /\ ~Called("open")
    /\ ~Called("sandbox::preparePolicy")
    /\ Called("log::initLogFile")

----------------------------------------------------------------------------
\* this step decodes one more directive
ReadsDirective == pc = "getopt" /\ Len(args') = Len(args) + 1

\* The directive decoded by this step fails: getopt_long does not know the
\* flag or misses its value, the mode letter is unknown, the capability name
\* is unknown, the log sink or the policy file is refused by the host, or the
\* identity or mount builder was called and has not taken the entry.
DirectiveFails ==
    LET d == args'[Len(args')]
    IN  \/ getopt_long(d) = "?"
        \/ /\ getopt_long(d) = "M"
           /\ (Len(d.optarg) = 0 \/ d.optarg[1] \notin {"l", "o", "e", "r"})
        \/ /\ Len(calls') = Len(calls) + 1
           /\ LET c == calls'[Len(calls')]
              IN  CASE c.fn = "caps::nameToVal" -> c.a.ret = -1
                    [] c.fn = "log::initLogFile" -> ~c.a.ret
                    [] c.fn = "access" -> ~c.a.ret
                    [] c.fn = "user::parseId" ->
                          nsjconf'.uids = nsjconf.uids /\ nsjconf'.gids = nsjconf.gids
                    [] c.fn = "mnt::addMountPtTail" ->
                          nsjconf'.mountpts = nsjconf.mountpts
                    [] OTHER -> FALSE

(* C11: a step that decodes a failing directive ends parseArgs with nullptr,
   and once parseArgs has ended nothing more happens: no later directive is
   decoded or applied, no finalization step runs and no specification is
   returned. *)
C11_StopAtFailure ==
    /\ [][(ReadsDirective /\ DirectiveFails) => (result' = "nullptr" /\ pc' = "done")]_vars
    /\ [][result = "pending" /\ pc # "done"]_vars

\* -c /j, then --cap x: nullptr after the second directive, the chroot of the
\* first applied, no capability stored, no finalization call made
C11_Witness ==
    /\ args = <<Short("c", Path_jail), Long("cap", <<"x">>)>>
    /\ result = "nullptr"
    /\ pc = "done"
    /\ nsjconf.chroot = Path_jail
    /\ nsjconf.caps = <<>>
    /\ nsjconf.mountpts = <<>>
    /\ nsjconf.uids = <<>>
    /\ Len(calls) = 1

----------------------------------------------------------------------------
(* C12: every count passed to the identity-map builder is at least 1,
   whatever value -u, -g, -U or -G was given, a third field "0" or a
   non-numeric one included. *)
C12_CountAtLeastOne ==
    \A i \in 1..Len(calls) :
        calls[i].fn = "user::parseId" => calls[i].a.count >= 1

\* -u 7:9:0 has reached the builder with count 0
C12_Witness ==
    /\ args = <<Short("u", <<"7", ":", "9", ":", "0">>)>>
    /\ calls[1].fn = "user::parseId"
    /\ calls[1].a.i_id = <<"7">>
    /\ calls[1].a.o_id = <<"9">>
    /\ calls[1].a.count = 0

----------------------------------------------------------------------------
\* the value t ends with a colon
EndsWithColon(t) == Len(t) > 0 /\ t[Len(t)] = ":"

(* C13: an empty part behind the final colon is treated as an absent part by
   the callers of the colon splitter that apply a default: an id-mapping
   value a:b: reaches the builder with count 1 as a:b does, and a bind-mount
   value /src: reaches the mount builder with destination /src as /src does,
   never with an empty destination. *)
C13_EmptyRightAsAbsent ==
    \A k \in 1..Len(args) :
        LET t == args[k].optarg
            c == calls[k].a
        IN  EndsWithColon(t) =>
              /\ args[k].name \in UidNames \cup GidNames =>
                    /\ c.count = 1
                    /\ Join(<<c.i_id, c.o_id>>) = SubSeq(t, 1, Len(t) - 1)
              /\ args[k].name \in BindRoNames \cup BindRwNames =>
                    /\ c.src = SubSeq(t, 1, Len(t) - 1)
                    /\ c.dst = SubSeq(t, 1, Len(t) - 1)
                    /\ c.dst # EmptyStr

\* -B /a: has reached the mount builder with source /a and an empty
\* destination
C13_Witness ==
    /\ args = <<Short("B", Path_a \o <<":">>)>>
    /\ calls[1].fn = "mnt::addMountPtTail"
    /\ calls[1].a.src = Path_a
    /\ calls[1].a.dst = EmptyStr

----------------------------------------------------------------------------
\* the value of the last -c/--chroot directive, empty when there is none
FinalChroot ==
    LET cs == Named({"c", "chroot"})
    IN  IF cs = <<>> THEN EmptyStr ELSE cs[Len(cs)].optarg

\* the calls that insert at the head of the mount list
HeadCalls == SelectSeq(calls, LAMBDA c : c.fn = "mnt::addMountPtHead")

(* C14: the root entry is decided by the final chroot value and by whether
   --rw was given, in whatever order the directives came: with a chroot
   source a bind mount of it to / with the recursive and private flags,
   without one a tmpfs at / with no source; read-only exactly when --rw was
   not given.  At most one root entry is inserted, exactly one in a parse
   that returns a specification, and it stands at the head. *)
C14_RootEntry ==
    /\ Len(HeadCalls) <= 1
    /\ result = "nsjconf" => Len(HeadCalls) = 1 /\ nsjconf.mountpts[1] = HeadCalls[1].a
    /\ \A i \in 1..Len(HeadCalls) :
          LET m == HeadCalls[i].a
          IN  /\ m.dst = <<"/">>
              /\ ("MS_RDONLY" \in m.flags) = ~Given({"rw"})
              /\ IF FinalChroot # <<>>
                 THEN /\ m.src = FinalChroot
                      /\ m.fs_type = ""
                      /\ m.flags \ {"MS_RDONLY"} = {"MS_BIND", "MS_REC", "MS_PRIVATE"}
                 ELSE /\ m.src = NULL
                      /\ m.fs_type = "tmpfs"
                      /\ m.flags \ {"MS_RDONLY"} = {}

\* --rw, then -c /j, then --chroot /a: one writable bind mount of /a at the
\* head of the returned mount list
C14_Witness ==
    /\ args = <<Long("rw", NULL), Short("c", Path_jail), Long("chroot", Path_a)>>
    /\ result = "nsjconf"
    /\ Len(HeadCalls) = 1
    /\ nsjconf.mountpts[1].src = Path_a
    /\ nsjconf.mountpts[1].flags = {"MS_BIND", "MS_REC", "MS_PRIVATE"}

----------------------------------------------------------------------------
(* C15: --cgroup_cpu_mount V sets the cpu cgroup mount path to V and leaves
   the net_cls cgroup mount path as it was, and --cgroup_net_cls_mount V
   sets the net_cls cgroup mount path to V and leaves the cpu cgroup mount
   path as it was. *)
C15_IndependentMounts ==
    /\ [][Reads({"cgroup_cpu_mount"}) =>
            nsjconf' = [nsjconf EXCEPT
                           !.cgroup_cpu_mount = args'[Len(args')].optarg]]_vars
    /\ [][Reads({"cgroup_net_cls_mount"}) =>
            nsjconf' = [nsjconf EXCEPT
                           !.cgroup_net_cls_mount = args'[Len(args')].optarg]]_vars

\* --cgroup_cpu_mount e0 has set the net_cls mount path and left the cpu
\* mount path at its default
C15_Witness ==
    /\ args = <<Long("cgroup_cpu_mount", Str_eth)>>
    /\ pc = "getopt"
    /\ nsjconf.cgroup_net_cls_mount = Str_eth
    /\ nsjconf.cgroup_cpu_mount = DefaultConf(host).cgroup_cpu_mount

----------------------------------------------------------------------------
\* the value of the last -x/--exec_file directive, NULL when there is none
FinalExecFile ==
    LET xs == Named({"x", "exec_file"})
    IN  IF xs = <<>> THEN NULL ELSE xs[Len(xs)].optarg

(* C16: a returned specification is complete: the mount list is not empty
   and begins with the entry for /, the uid and gid lists are not empty, the
   command vector is not empty, the execution target is set (the first
   command word when -x was not given), and the execution descriptor is open
   exactly when --execute_fd was given. *)
C16_Complete ==
    result = "nsjconf" =>
        /\ nsjconf.mountpts # <<>>
        /\ nsjconf.mountpts[1].dst = <<"/">>
        /\ nsjconf.uids # <<>>
        /\ nsjconf.gids # <<>>
        /\ nsjconf.argv # <<>>
        /\ nsjconf.argv = command
        /\ nsjconf.exec_file # NULL
        /\ nsjconf.exec_file =
              (IF FinalExecFile = NULL THEN nsjconf.argv[1] ELSE FinalExecFile)
        /\ (nsjconf.exec_fd # -1) = Given({"execute_fd"})

\* --execute_fd and /bin/sh: returned with the descriptor open and the first
\* command word as the execution target
C16_Witness ==
    /\ result = "nsjconf"
    /\ args = <<Long("execute_fd", NULL)>>
    /\ nsjconf.exec_fd = ExecFd
    /\ nsjconf.exec_file = <<"/", "b", "i", "n", "/", "s", "h">>
    /\ Len(nsjconf.mountpts) = 2
    /\ Len(nsjconf.uids) = 1
    /\ Len(nsjconf.gids) = 1

----------------------------------------------------------------------------
\* the directives that have written the mode: every -p, and every -M whose
\* letter is known
ModeWrites ==
    SelectSeq(args, LAMBDA d :
        \/ d.name \in {"p", "port"}
        \/ /\ d.name \in ModeNames
           /\ Len(d.optarg) > 0
           /\ d.optarg[1] \in {"l", "o", "e", "r"})

(* C17: the mode is written by -M and by -p and the last write wins: without
   either it is standalone-once, -p sets listen-TCP together with the port,
   and after any sequence of them the mode is the one selected by the last in
   command-line order. *)
C17_LastModeWins ==
    IF ModeWrites = <<>>
    THEN nsjconf.mode = "MODE_STANDALONE_ONCE" /\ nsjconf.port = 0
    ELSE LET d == ModeWrites[Len(ModeWrites)]
         IN  /\ nsjconf.mode = (IF d.name \in {"p", "port"}
                                THEN "MODE_LISTEN_TCP"
                                ELSE ModeOfLetter(d.optarg[1]))
             /\ \A k \in 1..Len(args) :
                   (args[k].name \in {"p", "port"}
                       /\ \A j \in (k + 1)..Len(args) : args[j].name \notin {"p", "port"})
                   => nsjconf.port = DecimalValue(args[k].optarg)

\* -M e, then -p 80: returned in listen-TCP mode with port 80
C17_Witness ==
    /\ args = <<Short("M", <<"e">>), Short("p", <<"8", "0">>)>>
    /\ result = "nsjconf"
    /\ nsjconf.mode = "MODE_LISTEN_TCP"
    /\ nsjconf.port = 80

============================================================================
